---- MODULE Spec2Model ----
(***************************************************************************)
(* Eventflow: the EventBus registry (a defaultdict of listener lists) and  *)
(* its synchronous dispatch, src/eventflow/bus.py.                         *)
(*                                                                         *)
(* The bus is used from one thread of control, so every public method is   *)
(* one action: the method runs to its return or to the exception that      *)
(* leaves it.  The bodies of the methods are operators over the registry   *)
(* (and, for dispatch, over a record holding the registry, the log of the  *)
(* listener invocations made so far and the exception in flight).  A call  *)
(* leaves its outcome in the history variables last, pre and log; the      *)
(* caller then takes the outcome (Return) and makes its next call.         *)
(***************************************************************************)
EXTENDS Integers, Sequences, FiniteSets, TLC

\* ---------------------------------------------------------------- bounds
MaxReg == 3        \* successful registrations in one behaviour
MaxBatch == 2      \* length of the event_types argument of fire_multiple

\* ---------------------------------------------------------------- inputs
EventTypes == {"1", "2"}

\* The callbacks a caller registers.  A and B return normally (the two
\* func of test_fire_multiple); R raises (create_medical_record on an event
\* whose data lacks "patient_id").
Listeners == {"A", "B", "R"}
Raising == {"R"}

\* Two readings of the clock, enough to tell equal timestamps from unequal.
Times == {0, 1}

\* The data argument of a call: left out, or a dict of the caller.
DataArgs == {"omitted", "d"}

\* The event_types argument of fire_multiple: a list or a str; items is what
\* iterating the value yields (the characters of a str).
ArgKinds == {"list", "str"}
SeqsUpTo(S, n) == UNION {[1..k -> S] : k \in 0..n}
EventTypesArgs == {[kind |-> k, items |-> s] : k \in ArgKinds, s \in SeqsUpTo(EventTypes, MaxBatch)}
NoArg == [kind |-> "none", items |-> <<>>]

VARIABLES
    events,   \* EventBus._events: event type -> list of listeners (keys: DOMAIN)
    nReg,     \* history: successful registrations (append, listen)
    nRem,     \* history: successful removals
    last,     \* history: the last call, its arguments, exception and return value
    pre,      \* history: _events as it was when the last call was made
    log,      \* history: the listener invocations of the last call, in order
    rt,       \* history: an append(t, L) and the remove(t, L) that directly follows it
    regs,     \* history: the registrations per type, in order, while nothing was removed
    cur,      \* the fire or fire_multiple under way, where dispatch is followed step
              \* by step: its arguments, its Event, the position of its loops
    heap      \* the payload dicts listeners have written to: dict -> keys written

vars == <<events, nReg, nRem, last, pre, log, rt, regs, cur, heap>>

\* ------------------------------------------------------------ Event
\* Mutant of Event: the Event keeps a copy of the dict it is given.
Event_copy(event_type, data, now) ==
    [event_type |-> event_type, data |-> "copy", timestamp |-> now]

\* Event.__init__: the three fields; now is the reading of the clock.
Event(event_type, data, now) ==
    [event_type |-> event_type, data |-> data, timestamp |-> now]

\* Event.as_dict: the two-level structure handed to the listeners.
as_dict(e) ==
    [metadata |-> [event_type |-> e.event_type, timestamp |-> e.timestamp],
     data |-> e.data]

\* ------------------------------------------------------------ EventBus
\* self._events[k] of a defaultdict(list): a missing key is inserted with
\* an empty list before the value is returned.
getitem(ev, k) ==
    [x \in DOMAIN ev \cup {k} |-> IF x \in DOMAIN ev THEN ev[x] ELSE <<>>]

RECURSIVE SumOver(_, _)
SumOver(f, S) ==
    IF S = {} THEN 0
    ELSE LET x == CHOOSE y \in S : TRUE IN f[x] + SumOver(f, S \ {x})

\* Mutant of BusLen: the number of keys, as __repr__ counts.
BusLenKeys(ev) == Cardinality(DOMAIN ev)

\* EventBus.__len__
BusLen(ev) == SumOver([t \in DOMAIN ev |-> Len(ev[t])], DOMAIN ev)

\* EventBus.listeners
listeners(ev) == [t \in DOMAIN ev |-> Len(ev[t])]

\* Mutant of append: the listener is put in front of the list.
append_front(ev, event_type, listener) ==
    LET ev1 == getitem(ev, event_type)
    IN  [ev1 EXCEPT ![event_type] = <<listener>> \o @]

\* Mutant of append: a listener that is in the list already is not added.
append_unique(ev, event_type, listener) ==
    LET ev1 == getitem(ev, event_type)
    IN  IF \E j \in 1..Len(ev1[event_type]) : ev1[event_type][j] = listener
        THEN ev1
        ELSE [ev1 EXCEPT ![event_type] = Append(@, listener)]

\* EventBus.append
append(ev, event_type, listener) ==
    LET ev1 == getitem(ev, event_type)
    IN  [ev1 EXCEPT ![event_type] = Append(@, listener)]

\* Mutant of list_remove: every item equal to x is deleted.
list_remove_all(s, x) == SelectSeq(s, LAMBDA y : y # x)

\* Mutant of list_remove: the last item equal to x is deleted.
list_remove_last(s, x) ==
    LET i == CHOOSE j \in 1..Len(s) : s[j] = x /\ \A k \in (j + 1)..Len(s) : s[k] # x
    IN  SubSeq(s, 1, i - 1) \o SubSeq(s, i + 1, Len(s))

\* list.remove(x): delete the first item equal to x.
list_remove(s, x) ==
    LET i == CHOOSE j \in 1..Len(s) : s[j] = x /\ \A k \in 1..(j - 1) : s[k] # x
    IN  SubSeq(s, 1, i - 1) \o SubSeq(s, i + 1, Len(s))

\* Mutant of remove: the listener is taken out of the list of every type.
remove_everywhere(ev, event_type, listener) ==
    LET ev1 == getitem(ev, event_type)
    IN  IF \E j \in 1..Len(ev1[event_type]) : ev1[event_type][j] = listener
        THEN [events |-> [x \in DOMAIN ev1 |->
                            IF \E j \in 1..Len(ev1[x]) : ev1[x][j] = listener
                            THEN list_remove(ev1[x], listener) ELSE ev1[x]],
              exc |-> "none"]
        ELSE [events |-> ev1, exc |-> "ValueError"]

\* EventBus.remove: list.remove raises ValueError when x is not in the list.
remove(ev, event_type, listener) ==
    LET ev1 == getitem(ev, event_type)
    IN  IF \E j \in 1..Len(ev1[event_type]) : ev1[event_type][j] = listener
        THEN [events |-> [ev1 EXCEPT ![event_type] = list_remove(@, listener)],
              exc |-> "none"]
        ELSE [events |-> ev1, exc |-> "ValueError"]

\* Mutant of listen: the decorator returns a wrapper, not f.
listen_wrapped(ev, event_type, f) ==
    LET ev1 == getitem(ev, event_type)
    IN  [events |-> [ev1 EXCEPT ![event_type] = Append(@, f)], ret |-> "wrapper"]

\* EventBus.listen(event_type)(f): the decorator appends f and returns it.
listen(ev, event_type, f) ==
    LET ev1 == getitem(ev, event_type)
    IN  [events |-> [ev1 EXCEPT ![event_type] = Append(@, f)], ret |-> f]

\* f(event=...): the listener runs; a raising listener leaves an exception.
call(st, f, event) ==
    [st EXCEPT !.log = Append(@, [listener |-> f, event |-> event]),
               !.exc = IF f \in Raising THEN "ListenerError" ELSE "none"]

\* The default of the data parameter of fire: one dict made at def time.
fire_data(data) == IF data = "omitted" THEN "fire.default" ELSE data

\* Mutant of fire_loop: a raising listener does not end the loop.
RECURSIVE fire_loop_isolated(_, _, _, _)
fire_loop_isolated(st, event_type, i, e) ==
    IF i > Len(st.events[event_type]) THEN st
    ELSE LET st1 == call(st, st.events[event_type][i], as_dict(e))
         IN  fire_loop_isolated([st1 EXCEPT !.exc = IF st.exc # "none" THEN st.exc ELSE @],
                                event_type, i + 1, e)

\* for f in self._events[event_type]: f(event=_event.as_dict())   (fire)
RECURSIVE fire_loop(_, _, _, _)
fire_loop(st, event_type, i, e) ==
    IF st.exc # "none" \/ i > Len(st.events[event_type]) THEN st
    ELSE fire_loop(call(st, st.events[event_type][i], as_dict(e)), event_type, i + 1, e)

\* Mutant of fire: the Event is made without the data of the call.
fire_without_data(st, event_type, data, now) ==
    LET e   == Event(event_type, fire_data("omitted"), now)
        st1 == [st EXCEPT !.events = getitem(@, event_type)]
    IN  fire_loop(st1, event_type, 1, e)

\* EventBus.fire
fire(st, event_type, data, now) ==
    LET e   == Event(event_type, fire_data(data), now)
        st1 == [st EXCEPT !.events = getitem(@, event_type)]
    IN  fire_loop(st1, event_type, 1, e)

\* The default of the data parameter of fire_multiple: another dict.
fire_multiple_data(data) == IF data = "omitted" THEN "fire_multiple.default" ELSE data

\* Mutant of is_list: anything that can be iterated is accepted.
is_iterable(event_types) == event_types.kind \in {"list", "str"}

\* isinstance(event_types, List)
is_list(event_types) == event_types.kind = "list"

\* for f in self._events[event_type]: f(event=_event.as_dict())   (fire_multiple)
RECURSIVE fire_multiple_inner(_, _, _, _)
fire_multiple_inner(st, event_type, i, e) ==
    IF st.exc # "none" \/ i > Len(st.events[event_type]) THEN st
    ELSE fire_multiple_inner(call(st, st.events[event_type][i], as_dict(e)),
                             event_type, i + 1, e)

\* Mutant of fire_multiple_outer: a type that was fired already is skipped.
RECURSIVE fire_multiple_outer_unique(_, _, _, _, _)
fire_multiple_outer_unique(st, items, k, data, nows) ==
    IF st.exc # "none" \/ k > Len(items) THEN st
    ELSE IF \E j \in 1..(k - 1) : items[j] = items[k]
         THEN fire_multiple_outer_unique(st, items, k + 1, data, nows)
         ELSE LET e   == Event(items[k], data, nows[k])
                  st1 == [st EXCEPT !.events = getitem(@, items[k])]
              IN  fire_multiple_outer_unique(fire_multiple_inner(st1, items[k], 1, e),
                                             items, k + 1, data, nows)

\* for event_type in event_types: ...   (fire_multiple); nows[k] is the
\* reading of the clock when the k-th Event is made.
RECURSIVE fire_multiple_outer(_, _, _, _, _)
fire_multiple_outer(st, items, k, data, nows) ==
    IF st.exc # "none" \/ k > Len(items) THEN st
    ELSE LET e   == Event(items[k], data, nows[k])
             st1 == [st EXCEPT !.events = getitem(@, items[k])]
         IN  fire_multiple_outer(fire_multiple_inner(st1, items[k], 1, e),
                                 items, k + 1, data, nows)

\* EventBus.fire_multiple
fire_multiple(st, event_types, data, nows) ==
    IF ~is_list(event_types)
    THEN [st EXCEPT !.exc = "ValueError"]
    ELSE fire_multiple_outer(st, event_types.items, 1, fire_multiple_data(data), nows)

\* ------------------------------------------------------------ the machine
NoRt == [stage |-> "none", event_type |-> "-", listener |-> "-", before |-> <<>>]

Call(op, event_type, listener, arg, data, exc, ret) ==
    [op |-> op, event_type |-> event_type, listener |-> listener, arg |-> arg,
     data |-> data, exc |-> exc, ret |-> ret]

Idle == Call("idle", "-", "-", NoArg, "-", "none", "-")

NoEvent == [event_type |-> "-", data |-> "-", timestamp |-> 0]

\* No fire or fire_multiple is under way.
NoCur ==
    [op |-> "none", arg |-> NoArg, data |-> "-", items |-> <<>>, k |-> 0, i |-> 1,
     event |-> NoEvent, exc |-> "none", ahead |-> <<>>]

\* EventBus.__init__: an empty defaultdict.
Init ==
    /\ events = <<>>
    /\ nReg = 0
    /\ nRem = 0
    /\ last = Idle
    /\ pre = <<>>
    /\ log = <<>>
    /\ rt = NoRt
    /\ regs = [t \in EventTypes |-> <<>>]
    /\ cur = NoCur
    /\ heap = <<>>

\* regs after f was registered under t.
Registered(t, f) == IF nRem = 0 THEN [regs EXCEPT ![t] = Append(@, f)] ELSE regs

\* bus.append(event_type=t, listener=f)
CallAppend(t, f) ==
    /\ last = Idle
    /\ nReg < MaxReg
    /\ events' = append(events, t, f)
    /\ nReg' = nReg + 1
    /\ last' = Call("append", t, f, NoArg, "-", "none", "-")
    /\ pre' = events
    /\ log' = <<>>
    /\ rt' = [stage |-> "appended", event_type |-> t, listener |-> f, before |-> events]
    /\ regs' = Registered(t, f)
    /\ UNCHANGED <<nRem, cur, heap>>

\* bus.remove(event_type=t, listener=f)
CallRemove(t, f) ==
    LET r == remove(events, t, f)
    IN  /\ last = Idle
        /\ events' = r.events
        /\ nRem' = IF r.exc = "none" THEN nRem + 1 ELSE nRem
        /\ last' = Call("remove", t, f, NoArg, "-", r.exc, "-")
        /\ pre' = events
        /\ log' = <<>>
        /\ rt' = IF /\ rt.stage = "appended"
                    /\ rt.event_type = t
                    /\ rt.listener = f
                 THEN [rt EXCEPT !.stage = "removed"]
                 ELSE NoRt
        /\ regs' = IF r.exc = "none" THEN [x \in EventTypes |-> <<>>] ELSE regs
        /\ UNCHANGED <<nReg, cur, heap>>

\* @bus.listen(event_type=t) applied to f
CallListen(t, f) ==
    LET r == listen(events, t, f)
    IN  /\ last = Idle
        /\ nReg < MaxReg
        /\ events' = r.events
        /\ nReg' = nReg + 1
        /\ last' = Call("listen", t, f, NoArg, "-", "none", r.ret)
        /\ pre' = events
        /\ log' = <<>>
        /\ rt' = NoRt
        /\ regs' = Registered(t, f)
        /\ UNCHANGED <<nRem, cur, heap>>

\* bus.fire(event_type=t) or bus.fire(event_type=t, data=d)
CallFire(t, d, now) ==
    LET r == fire([events |-> events, log |-> <<>>, exc |-> "none"], t, d, now)
    IN  /\ last = Idle
        /\ events' = r.events
        /\ log' = r.log
        /\ last' = Call("fire", t, "-", NoArg, d, r.exc, "-")
        /\ pre' = events
        /\ rt' = NoRt
        /\ UNCHANGED <<nReg, nRem, regs, cur, heap>>

\* bus.fire_multiple(event_types=a) or bus.fire_multiple(event_types=a, data=d)
CallFireMultiple(a, d, nows) ==
    LET r == fire_multiple([events |-> events, log |-> <<>>, exc |-> "none"], a, d, nows)
    IN  /\ last = Idle
        /\ events' = r.events
        /\ log' = r.log
        /\ last' = Call("fire_multiple", "-", "-", a, d, r.exc, "-")
        /\ pre' = events
        /\ rt' = NoRt
        /\ UNCHANGED <<nReg, nRem, regs, cur, heap>>

\* The caller has the outcome of its call and goes on.
Return ==
    /\ last # Idle
    /\ last' = Idle
    /\ pre' = <<>>
    /\ log' = <<>>
    /\ rt' = IF rt.stage = "removed" THEN NoRt ELSE rt
    /\ UNCHANGED <<events, nReg, nRem, regs, cur, heap>>

\* The clock is read once for every Event a call of fire_multiple makes.
NumEvents(a) == IF is_list(a) THEN Len(a.items) ELSE 0

Next ==
    \/ \E t \in EventTypes, f \in Listeners : CallAppend(t, f)
    \/ \E t \in EventTypes, f \in Listeners : CallRemove(t, f)
    \/ \E t \in EventTypes, f \in Listeners : CallListen(t, f)
    \/ \E t \in EventTypes, d \in DataArgs, now \in Times : CallFire(t, d, now)
    \/ \E a \in EventTypesArgs, d \in DataArgs :
          \E nows \in [1..NumEvents(a) -> Times] : CallFireMultiple(a, d, nows)
    \/ Return

Spec == Init /\ [][Next]_vars

\* ------------------------------------------------------------ dispatch, step by step
\* The same methods with every listener invocation a step of its own, for
\* listeners that write to what they are handed or call the bus again.

MaxSetup == 2      \* registrations made by the caller in one behaviour
MaxLen == 3        \* length a list reaches through listeners that append

\* Listeners that write to the dicts they are handed: M does
\* event["data"]["k"] = ..., X does event["metadata"]["event_type"] = "x".
PayloadListeners == {"A", "M", "X"}
Writing == {"M"}
Rewriting == {"X"}

\* Listeners that call the bus while they are invoked: S does
\* bus.remove(event["metadata"]["event_type"], S), P does
\* bus.append(event["metadata"]["event_type"], P).
ReentrantListeners == {"A", "S", "P"}
SelfRemoving == {"S"}
SelfAppending == {"P"}

\* The keys listeners have written to the dict ref; a dict no listener has
\* written to has none.
load(hp, ref) == IF ref \in DOMAIN hp THEN hp[ref] ELSE {}

\* event["data"][key] = ... on the dict ref.
store(hp, ref, key) ==
    [x \in DOMAIN hp \cup {ref} |-> IF x = ref THEN load(hp, ref) \cup {key} ELSE hp[x]]

\* The body of listener f, invoked with the dict handed: what it leaves of
\* the registry, of the payloads and of the dict it was handed, and the
\* exception that leaves it.
run(f, handed, ev, hp) ==
    LET t == handed.metadata.event_type
        r == remove(ev, t, f)
    IN  [events |-> IF f \in SelfRemoving THEN r.events
                    ELSE IF f \in SelfAppending THEN append(ev, t, f)
                    ELSE ev,
         heap   |-> IF f \in Writing THEN store(hp, handed.data, "k") ELSE hp,
         left   |-> IF f \in Rewriting
                    THEN [handed EXCEPT !.metadata.event_type = "x"]
                    ELSE handed,
         exc    |-> IF f \in Raising THEN "ListenerError"
                    ELSE IF f \in SelfRemoving THEN r.exc
                    ELSE "none"]

\* Mutant of after_listener: the listener was handed the Event's own fields.
after_listener_aliased(e, left) ==
    [e EXCEPT !.event_type = left.metadata.event_type,
              !.timestamp = left.metadata.timestamp]

\* The Event after a listener has run on the dict as_dict made for it:
\* as_dict builds new dicts, a write to their metadata is no write to the Event.
after_listener(e, left) == e

\* The type whose list the loop under way iterates.
CurType == cur.items[cur.k]

\* The listeners the loop under way has still ahead of it.
Ahead ==
    IF cur.op = "none" \/ cur.k = 0 THEN <<>>
    ELSE SubSeq(events[CurType], cur.i, Len(events[CurType]))

\* The loop over the list of the current type has come to its end (no list
\* is iterated before fire_multiple has taken its first type).
LoopDone == IF cur.k = 0 THEN TRUE ELSE cur.i > Len(events[CurType])

\* The caller registers f under t.
SetupAppend(t, f) ==
    /\ last = Idle /\ cur = NoCur
    /\ nReg < MaxSetup
    /\ events' = append(events, t, f)
    /\ nReg' = nReg + 1
    /\ UNCHANGED <<nRem, last, pre, log, rt, regs, cur, heap>>

\* fire, up to its loop: the Event is made and self._events[event_type] is
\* taken to be iterated.
BeginFire(t, d, now) ==
    /\ last = Idle /\ cur = NoCur
    /\ cur' = [NoCur EXCEPT !.op = "fire", !.data = d, !.items = <<t>>, !.k = 1,
                            !.event = Event(t, fire_data(d), now)]
    /\ events' = getitem(events, t)
    /\ pre' = events
    /\ log' = <<>>
    /\ UNCHANGED <<nReg, nRem, last, rt, regs, heap>>

\* f(event=_event.as_dict()) for the next f of the list: the list is read
\* at the position of the loop as it is now.
InvokeNext ==
    /\ cur.exc = "none"
    /\ cur.k >= 1
    /\ cur.i <= Len(events[CurType])
    /\ LET f      == events[CurType][cur.i]
           handed == as_dict(cur.event)
           r      == run(f, handed, events, heap)
       IN  /\ Len(r.events[CurType]) <= MaxLen
           /\ events' = r.events
           /\ heap' = r.heap
           /\ log' = Append(log, [listener |-> f, event |-> handed,
                                  seen |-> load(heap, handed.data), left |-> r.left])
           /\ cur' = [cur EXCEPT !.i = @ + 1, !.exc = r.exc,
                                 !.event = after_listener(@, r.left),
                                 !.ahead = Ahead]
    /\ UNCHANGED <<nReg, nRem, last, pre, rt, regs>>

\* The loop of fire.
FireInvoke == cur.op = "fire" /\ InvokeNext

\* fire returns, or the exception of a listener leaves it.
FireReturn ==
    /\ cur.op = "fire"
    /\ cur.exc # "none" \/ LoopDone
    /\ last' = Call("fire", CurType, "-", NoArg, cur.data, cur.exc, "-")
    /\ cur' = NoCur
    /\ UNCHANGED <<events, nReg, nRem, pre, log, rt, regs, heap>>

\* fire_multiple, up to its loops: the check of event_types.
BeginFireMultiple(a, d) ==
    /\ last = Idle /\ cur = NoCur
    /\ IF is_list(a)
       THEN /\ cur' = [NoCur EXCEPT !.op = "fire_multiple", !.arg = a, !.data = d,
                                    !.items = a.items]
            /\ UNCHANGED last
       ELSE /\ last' = Call("fire_multiple", "-", "-", a, d, "ValueError", "-")
            /\ UNCHANGED cur
    /\ pre' = events
    /\ log' = <<>>
    /\ UNCHANGED <<events, nReg, nRem, rt, regs, heap>>

\* The outer loop of fire_multiple takes the next type: its Event is made
\* and self._events[event_type] is taken to be iterated.
MultiNextType(now) ==
    /\ cur.op = "fire_multiple" /\ cur.exc = "none"
    /\ cur.k < Len(cur.items)
    /\ LoopDone
    /\ cur' = [cur EXCEPT !.k = @ + 1, !.i = 1, !.ahead = <<>>,
                          !.event = Event(cur.items[cur.k + 1],
                                          fire_multiple_data(cur.data), now)]
    /\ events' = getitem(events, cur.items[cur.k + 1])
    /\ UNCHANGED <<nReg, nRem, last, pre, log, rt, regs, heap>>

\* The inner loop of fire_multiple.
MultiInvoke == cur.op = "fire_multiple" /\ InvokeNext

\* fire_multiple returns, or the exception of a listener leaves it.
MultiReturn ==
    /\ cur.op = "fire_multiple"
    /\ \/ cur.exc # "none"
       \/ cur.k = Len(cur.items) /\ LoopDone
    /\ last' = Call("fire_multiple", "-", "-", cur.arg, cur.data, cur.exc, "-")
    /\ cur' = NoCur
    /\ UNCHANGED <<events, nReg, nRem, pre, log, rt, regs, heap>>

\* The caller has the outcome of its call and goes on; the dict it passed
\* as data is its own, the next call gets a new one.
CallerGoesOn ==
    /\ last # Idle
    /\ last' = Idle
    /\ pre' = <<>>
    /\ log' = <<>>
    /\ heap' = [x \in DOMAIN heap \ {"d"} |-> heap[x]]
    /\ UNCHANGED <<events, nReg, nRem, rt, regs, cur>>

Dispatch ==
    \/ \E t \in EventTypes, d \in DataArgs, now \in Times : BeginFire(t, d, now)
    \/ FireInvoke
    \/ FireReturn
    \/ \E a \in EventTypesArgs, d \in DataArgs : BeginFireMultiple(a, d)
    \/ \E now \in Times : MultiNextType(now)
    \/ MultiInvoke
    \/ MultiReturn
    \/ CallerGoesOn

NextPayload ==
    \/ \E t \in EventTypes, f \in PayloadListeners : SetupAppend(t, f)
    \/ Dispatch

SpecPayload == Init /\ [][NextPayload]_vars

NextReentrant ==
    \/ \E t \in EventTypes, f \in ReentrantListeners : SetupAppend(t, f)
    \/ Dispatch

SpecReentrant == Init /\ [][NextReentrant]_vars

\* ------------------------------------------------------------ properties
\* The list of a type, an absent type counting as the empty list.
Get(ev, t) == IF t \in DOMAIN ev THEN ev[t] ELSE <<>>

\* The listeners of the log, in the order of their invocation.
LogListeners == [i \in 1..Len(log) |-> log[i].listener]

\* What each invocation of the log was handed, without the timestamp.
Delivered(l) ==
    [i \in 1..Len(l) |-> [listener |-> l[i].listener,
                          event_type |-> l[i].event.metadata.event_type,
                          data |-> l[i].event.data]]

Occurrences(s, x) == Cardinality({i \in 1..Len(s) : s[i] = x})

HasRaising(s) == \E i \in 1..Len(s) : s[i] \in Raising

\* s up to and including its first raising listener (all of s without one).
UpToRaise(s) ==
    IF HasRaising(s)
    THEN SubSeq(s, 1, CHOOSE i \in 1..Len(s) :
                         s[i] \in Raising /\ \A j \in 1..(i - 1) : s[j] \notin Raising)
    ELSE s

\* The lists of the types of items, one after the other.
RECURSIVE Chain(_, _, _)
Chain(ev, items, k) ==
    IF k > Len(items) THEN <<>> ELSE Get(ev, items[k]) \o Chain(ev, items, k + 1)

Fired == last.op = "fire"
FiredMultiple == last.op = "fire_multiple" /\ last.arg.kind = "list"

\* C1: while nothing was removed, fire(t) invokes the listeners registered
\* under t in the order of their registration, each once per registration,
\* every one with an event of type t, and nothing else: the invocations are
\* the registrations of t, in order, all of them when fire returns and the
\* ones up to a raising listener when it does not.
C1_FireInRegistrationOrder ==
    (Fired /\ nRem = 0) =>
        /\ LogListeners = UpToRaise(regs[last.event_type])
        /\ last.exc = "none" => LogListeners = regs[last.event_type]
        /\ \A i \in 1..Len(log) : log[i].event.metadata.event_type = last.event_type

C1_Witness ==
    /\ Fired /\ nRem = 0 /\ last.exc = "none"
    /\ Len(log) = 3
    /\ log[1].listener # log[2].listener
    /\ log[3].listener = log[1].listener

\* C2: remove(t, L) raises when t is not a key of the registry or L is not
\* in the list of t, and the registry after the failed call is the registry
\* before it.
C2_FailedRemoveLeavesRegistry ==
    last.op = "remove" =>
        /\ Occurrences(Get(pre, last.event_type), last.listener) = 0
              => last.exc = "ValueError"
        /\ last.exc = "ValueError" => events = pre

\* C3: when a listener raises during fire or fire_multiple, the exception
\* leaves the call and the invocations of the call are the listeners of the
\* fired types, in order, up to the raising one: each of the earlier ones
\* once, none of the later ones of that type or of a later type.
C3_RaiseStopsDispatch ==
    LET full == IF Fired THEN Get(pre, last.event_type)
                ELSE Chain(pre, last.arg.items, 1)
    IN  (Fired \/ FiredMultiple) =>
            /\ last.exc = "ListenerError" <=> HasRaising(full)
            /\ HasRaising(full) =>
                  /\ LogListeners = UpToRaise(full)
                  /\ log[Len(log)].listener \in Raising

C3_Witness ==
    /\ FiredMultiple /\ last.exc = "ListenerError"
    /\ Len(last.arg.items) = 2
    /\ last.arg.items[1] # last.arg.items[2]
    /\ Len(Get(pre, last.arg.items[1])) = 2
    /\ Len(Get(pre, last.arg.items[2])) = 1
    /\ Len(log) = 1

\* C4: fire_multiple with event_types that is not a list (the str "12")
\* raises ValueError before any dispatch: no listener is invoked and the
\* registry is as it was.
C4_NotAListFailsFast ==
    (last.op = "fire_multiple" /\ last.arg.kind # "list") =>
        /\ last.exc = "ValueError"
        /\ log = <<>>
        /\ events = pre

C4_Witness ==
    /\ last.op = "fire_multiple"
    /\ last.arg = [kind |-> "str", items |-> <<"1", "2">>]
    /\ Len(Get(pre, "1")) > 0
    /\ Len(Get(pre, "2")) > 0
    /\ last.exc = "ValueError"

\* The calls fire(t1, d); ...; fire(tn, d) of a caller, one after the other;
\* an exception that leaves one of them leaves the caller too.
RECURSIVE FireEach(_, _, _, _)
FireEach(st, items, k, d) ==
    IF st.exc # "none" \/ k > Len(items) THEN st
    ELSE FireEach(fire(st, items[k], d, 0), items, k + 1, d)

\* C5: fire_multiple([t1, ..., tn], d) makes the invocations that the calls
\* fire(t1, d); ...; fire(tn, d) make from the same registry: the same
\* listeners in the same order, each handed the same event type and the same
\* payload; it ends with the same exception, if any, and the same registry.
C5_FireMultipleIsFireEach ==
    FiredMultiple =>
        LET r == FireEach([events |-> pre, log |-> <<>>, exc |-> "none"],
                          last.arg.items, 1, fire_multiple_data(last.data))
        IN  /\ Delivered(log) = Delivered(r.log)
            /\ last.exc = r.exc
            /\ events = r.events

C5_Witness ==
    /\ FiredMultiple /\ last.exc = "none"
    /\ Len(last.arg.items) = 2
    /\ last.arg.items[1] = last.arg.items[2]
    /\ Len(Get(pre, last.arg.items[1])) = 2
    /\ Len(log) = 4
    /\ log[1].listener # log[2].listener

\* C6: fire(t) on a bus with no listener of t invokes nothing, raises
\* nothing and leaves the bus as it was: the registry, the listeners view
\* and len(bus).
C6_FireWithoutListenersIsNoOp ==
    (Fired /\ Get(pre, last.event_type) = <<>>) =>
        /\ log = <<>>
        /\ last.exc = "none"
        /\ events = pre
        /\ listeners(events) = listeners(pre)
        /\ BusLen(events) = BusLen(pre)

\* C7: the listeners view holds exactly the types that have a listener, each
\* with the number of its listeners; no type is in it with the count 0.
C7_ListenersViewHasNoZero ==
    LET view == listeners(events)
    IN  /\ \A t \in EventTypes : t \in DOMAIN view <=> Len(Get(events, t)) >= 1
        /\ \A t \in DOMAIN view : view[t] = Len(Get(events, t)) /\ view[t] # 0

\* The count of a type in the listeners view, 0 for a type not in it.
ViewCount(ev, t) == IF t \in DOMAIN listeners(ev) THEN listeners(ev)[t] ELSE 0

\* C8: append(t, L) directly followed by remove(t, L): the remove succeeds,
\* len(bus) is what it was before the append and the count of t in the
\* listeners view is not higher than before.
C8_AppendRemoveRestoresLen ==
    rt.stage = "removed" =>
        /\ last.exc = "none"
        /\ BusLen(events) = BusLen(rt.before)
        /\ ViewCount(events, rt.event_type) <= ViewCount(rt.before, rt.event_type)

C8_Witness ==
    /\ rt.stage = "removed"
    /\ last.op = "remove" /\ last.exc = "none"
    /\ Occurrences(Get(rt.before, rt.event_type), rt.listener) = 1
    /\ Len(Get(rt.before, rt.event_type)) = 2

\* C9: len(bus) is 0 for a new bus and is always the sum of the counts of
\* the listeners view, which is the number of successful registrations less
\* the number of successful removals.
C9_LenIsRegistrationsLessRemovals ==
    /\ BusLen(events) = SumOver(listeners(events), DOMAIN listeners(events))
    /\ BusLen(events) = nReg - nRem
    /\ (nReg = 0 => BusLen(events) = 0)

C9_Witness ==
    /\ nReg = 3 /\ nRem = 1
    /\ BusLen(events) = 2
    /\ Cardinality(DOMAIN events) = 1

\* C10: registration does not de-duplicate: registering L under t where L
\* is registered already adds another entry (the view counts one more), and
\* fire(t), when it returns, has invoked every listener once per entry, a
\* listener registered twice two times.
C10_DuplicatesAreKept ==
    /\ (last.op \in {"append", "listen"}) =>
          /\ Occurrences(events[last.event_type], last.listener)
                = Occurrences(Get(pre, last.event_type), last.listener) + 1
          /\ listeners(events)[last.event_type] = Len(Get(pre, last.event_type)) + 1
    /\ (Fired /\ last.exc = "none") =>
          \A f \in Listeners :
              Occurrences(LogListeners, f) = Occurrences(Get(pre, last.event_type), f)

C10_Witness ==
    /\ Fired /\ last.exc = "none"
    /\ Len(Get(pre, last.event_type)) = 2
    /\ pre[last.event_type][1] = pre[last.event_type][2]
    /\ listeners(pre)[last.event_type] = 2
    /\ Len(log) = 2
    /\ log[1].listener = log[2].listener

\* C13: the decorator of listen(t), applied to f, returns f and leaves the
\* bus as append(t, f) leaves it: the registry after it is the registry
\* append makes of the registry before it, so that a fire of t dispatches
\* alike from both.
C13_ListenIsAppend ==
    last.op = "listen" =>
        /\ last.ret = last.listener
        /\ events = append(pre, last.event_type, last.listener)
        /\ \A now \in Times :
              fire([events |-> events, log |-> <<>>, exc |-> "none"],
                   last.event_type, "d", now)
            = fire([events |-> append(pre, last.event_type, last.listener),
                    log |-> <<>>, exc |-> "none"], last.event_type, "d", now)

C13_Witness ==
    /\ last.op = "listen"
    /\ last.ret = last.listener
    /\ Len(Get(pre, last.event_type)) = 2
    /\ Occurrences(Get(pre, last.event_type), last.listener) = 1

\* C14: every listener fire(t, d) invokes is handed a serialized event
\* whose data is d (the default dict of fire when d is left out) and whose
\* metadata.event_type is t.
C14_ListenerGetsPayloadAndType ==
    Fired =>
        \A i \in 1..Len(log) :
            /\ log[i].event.data =
                  (IF last.data = "omitted" THEN "fire.default" ELSE last.data)
            /\ log[i].event.metadata.event_type = last.event_type
            /\ DOMAIN log[i].event = {"metadata", "data"}

C14_Witness ==
    /\ Fired /\ last.data = "d" /\ last.exc = "none"
    /\ Len(log) = 2
    /\ log[2].event.data = "d"
    /\ log[2].event.metadata.event_type = last.event_type

\* C15: a remove(t, L) that succeeds deletes one entry of the list of t,
\* the first one equal to L, and keeps all other entries, later entries
\* equal to L too, in their order.
C15_RemoveDeletesFirstOccurrence ==
    (last.op = "remove" /\ last.exc = "none") =>
        LET s  == Get(pre, last.event_type)
            s2 == Get(events, last.event_type)
        IN  \E i \in 1..Len(s) :
                /\ s[i] = last.listener
                /\ \A j \in 1..(i - 1) : s[j] # last.listener
                /\ Len(s2) = Len(s) - 1
                /\ \A j \in 1..(i - 1) : s2[j] = s[j]
                /\ \A j \in i..Len(s2) : s2[j] = s[j + 1]

C15_Witness ==
    /\ last.op = "remove" /\ last.exc = "none"
    /\ Len(Get(pre, last.event_type)) = 3
    /\ pre[last.event_type][1] = last.listener
    /\ pre[last.event_type][2] # last.listener
    /\ pre[last.event_type][3] = last.listener
    /\ events[last.event_type] = <<pre[last.event_type][2], last.listener>>

\* C18: append, listen and remove on a type t leave the list of every other
\* type as it was, and fire(t) invokes only listeners that are in the list
\* of t.
C18_TypesAreIndependent ==
    /\ last.op \in {"append", "listen", "remove"} =>
          \A t \in EventTypes \ {last.event_type} :
              /\ Get(events, t) = Get(pre, t)
              /\ t \in DOMAIN events <=> t \in DOMAIN pre
    /\ Fired =>
          /\ \A i \in 1..Len(log) :
                Occurrences(Get(pre, last.event_type), log[i].listener) > 0
          /\ \A t \in EventTypes \ {last.event_type} : Get(events, t) = Get(pre, t)

C18_Witness ==
    /\ last.op = "remove" /\ last.exc = "none"
    /\ \E t \in EventTypes \ {last.event_type} :
          /\ Occurrences(Get(pre, t), last.listener) = 1
          /\ Get(events, t) = Get(pre, t)

\* C20 as claimed: append(t, L) directly followed by remove(t, L) leaves
\* the list of t as it was before the append, also when L was in it.
C20_AppendRemoveRestoresSequence ==
    rt.stage = "removed" =>
        Get(events, rt.event_type) = Get(rt.before, rt.event_type)

\* C20, amended: append(t, L) directly followed by remove(t, L) leaves the
\* list of t as it was before the append when L was not in it; when L was
\* in it, the list is the old one with its first L moved to the end.
C20_AppendRemoveMovesFirstToEnd ==
    rt.stage = "removed" =>
        LET s  == Get(rt.before, rt.event_type)
            s2 == Get(events, rt.event_type)
        IN  /\ Occurrences(s, rt.listener) = 0 => s2 = s
            /\ Occurrences(s, rt.listener) > 0 =>
                  \E i \in 1..Len(s) :
                      /\ s[i] = rt.listener
                      /\ \A j \in 1..(i - 1) : s[j] # rt.listener
                      /\ Len(s2) = Len(s)
                      /\ \A j \in 1..(i - 1) : s2[j] = s[j]
                      /\ \A j \in i..(Len(s) - 1) : s2[j] = s[j + 1]
                      /\ s2[Len(s)] = rt.listener

C20_Witness ==
    /\ rt.stage = "removed"
    /\ Len(Get(rt.before, rt.event_type)) = 2
    /\ rt.before[rt.event_type][1] = rt.listener
    /\ rt.before[rt.event_type][2] # rt.listener
    /\ events[rt.event_type] = <<rt.before[rt.event_type][2], rt.listener>>

\* The call under way or, when none is, the call that was made last.
TheCall == IF cur.op # "none" THEN cur ELSE last

\* The dict the caller of TheCall gave as data: its own dict, or the default
\* of the method it called.
CallerRef ==
    IF TheCall.data # "omitted" THEN TheCall.data
    ELSE IF TheCall.op = "fire" THEN "fire.default" ELSE "fire_multiple.default"

\* C11: the payload of a fire or fire_multiple is shared, not copied: every
\* listener is handed the dict of the caller, a listener invoked after one
\* that wrote to it reads what was written (in fire_multiple also when it
\* is a listener of a later type), and so does the caller after the call.
C11_PayloadIsShared ==
    TheCall.op \in {"fire", "fire_multiple"} =>
        /\ \A j \in 1..Len(log) :
              /\ log[j].event.data = CallerRef
              /\ (\E i \in 1..(j - 1) : log[i].listener \in Writing)
                    => "k" \in log[j].seen
        /\ (\E i \in 1..Len(log) : log[i].listener \in Writing)
              => "k" \in load(heap, CallerRef)

C11_Witness ==
    /\ last.op = "fire_multiple" /\ last.data = "d" /\ last.exc = "none"
    /\ Len(log) = 2
    /\ log[1].listener \in Writing
    /\ log[2].listener \notin Writing
    /\ log[1].event.metadata.event_type # log[2].event.metadata.event_type
    /\ log[1].seen = {}
    /\ log[2].seen = {"k"}
    /\ load(heap, "d") = {"k"}

\* C12: the payload is empty by default and new for every call: the first
\* listener of a fire or fire_multiple called without data reads an empty
\* payload, whatever the listeners of earlier calls have written.
C12_DefaultPayloadIsEmpty ==
    (TheCall.op \in {"fire", "fire_multiple"} /\ TheCall.data = "omitted" /\ log # <<>>)
        => log[1].seen = {}

\* C16: fire(t) invokes every listener that is in the list of t when fire
\* is called, once per entry, also when a listener takes itself out of the
\* list while it is invoked (and no listener is added meanwhile).
C16_SelfRemovalSkipsNothing ==
    (/\ Fired
     /\ last.exc = "none"
     /\ \A f \in SelfAppending : Occurrences(Get(pre, last.event_type), f) = 0
     /\ \A g \in SelfRemoving : Occurrences(Get(pre, last.event_type), g) <= 1)
        => \A f \in Listeners \cup ReentrantListeners :
              Occurrences(LogListeners, f) = Occurrences(Get(pre, last.event_type), f)

\* C17: fire(t) and fire_multiple return when every invocation returns, also
\* when listeners register listeners under t meanwhile.  What a listener
\* does depends on the event only, so a loop that returns is never, after an
\* invocation, where it was before it, with the same listeners ahead: from
\* there it would make the same invocation again, and again.
C17_DispatchComesToAnEnd ==
    cur.ahead # <<>> => Ahead # cur.ahead

\* C19: within one fire(t) every listener is handed the same metadata, the
\* event_type t and one timestamp, also after a listener has written to the
\* metadata it was handed; the fields of the Event stay as they were made.
C19_MetadataIsPerListener ==
    cur.op = "fire" =>
        /\ \A j \in 1..Len(log) :
              /\ log[j].event.metadata.event_type = cur.items[1]
              /\ log[j].event.metadata.timestamp = log[1].event.metadata.timestamp
              /\ DOMAIN log[j].event.metadata = {"event_type", "timestamp"}
        /\ cur.event.event_type = cur.items[1]
        /\ log # <<>> => cur.event.timestamp = log[1].event.metadata.timestamp

C19_Witness ==
    /\ cur.op = "fire"
    /\ Len(log) = 2
    /\ log[1].listener \in Rewriting
    /\ log[1].left.metadata.event_type # cur.items[1]
    /\ log[2].event.metadata.event_type = cur.items[1]
    /\ log[2].event.metadata.timestamp = 1

====
